---- MODULE Spec2Model ----
(***************************************************************************)
(* The versioned snapshot cache of ymsd-sleeper-api: the pointer file      *)
(* (current_version.json), the cache directory (database_V.sqlite and      *)
(* manifest_V.json), the DatabaseManager's connection state, and the       *)
(* operations of DatabaseManager and VersionManager, each cut into the     *)
(* steps at which another thread or process can interleave.                *)
(*                                                                         *)
(* Units: the clock counts hours (DATABASE_CACHE_TTL = 3600 s = 1) and     *)
(* file sizes count GiB (the budget is MAX_CACHE_SIZE_GB * 1 GiB).         *)
(***************************************************************************)
EXTENDS Naturals, Sequences, FiniteSets, TLC

None == "none"

\* No connection: the None of _db_connection and of a failed acquire.
NoConn == [ver |-> "none", owner |-> "none", content |-> "absent", mtime |-> 0]

Versions == {"v1", "v2", "v3", "v4", "v5"}

\* The object listing returns keys in lexicographic order.
Idx(v) ==
    CASE v = "v1" -> 1 [] v = "v2" -> 2 [] v = "v3" -> 3 [] v = "v4" -> 4 [] OTHER -> 5

\* config.py
DATABASE_CACHE_TTL == 1
MAX_CACHE_SIZE_GB == 5

\* Bounds of the model.
MaxTime == 2
MaxKeep == 2

Threads == {"t1", "t2"}
Promoters == {"p1", "p2"}

(***************************************************************************)
(* The object store: per version, whether a manifest object is listed,     *)
(* the manifest's timestamp (0: the manifest carries none), whether the    *)
(* manifest has a database_snapshot entry, and what lies at its s3_key.    *)
(* Published objects are immutable: s3 never changes after Init.           *)
(***************************************************************************)
S3Mixed ==
    [v \in Versions |->
        CASE v = "v1" -> [listed |-> TRUE, ts |-> 1, snap |-> TRUE, art |-> "good", size |-> 6]
          [] v = "v2" -> [listed |-> TRUE, ts |-> 2, snap |-> TRUE, art |-> "good", size |-> 2]
          [] v = "v3" -> [listed |-> TRUE, ts |-> 3, snap |-> TRUE, art |-> "bad", size |-> 3]
          [] v = "v4" -> [listed |-> TRUE, ts |-> 4, snap |-> FALSE, art |-> "missing", size |-> 0]
          [] OTHER    -> [listed |-> FALSE, ts |-> 0, snap |-> FALSE, art |-> "missing", size |-> 0]]

S3Empty ==
    [v \in Versions |->
        [listed |-> FALSE, ts |-> 0, snap |-> FALSE, art |-> "missing", size |-> 0]]

\* v2's manifest names a snapshot object that the store does not have.
S3Dangling ==
    [v \in Versions |->
        CASE v = "v1" -> [listed |-> TRUE, ts |-> 1, snap |-> TRUE, art |-> "good", size |-> 6]
          [] v = "v2" -> [listed |-> TRUE, ts |-> 2, snap |-> TRUE, art |-> "missing", size |-> 0]
          [] OTHER    -> [listed |-> FALSE, ts |-> 0, snap |-> FALSE, art |-> "missing", size |-> 0]]

\* v2's manifest carries no timestamp.
S3NoTimestamp ==
    [v \in Versions |->
        CASE v = "v1" -> [listed |-> TRUE, ts |-> 1, snap |-> TRUE, art |-> "good", size |-> 6]
          [] v = "v2" -> [listed |-> TRUE, ts |-> 0, snap |-> TRUE, art |-> "good", size |-> 2]
          [] OTHER    -> [listed |-> FALSE, ts |-> 0, snap |-> FALSE, art |-> "missing", size |-> 0]]

S3Five ==
    [v \in Versions |->
        [listed |-> TRUE, ts |-> Idx(v), snap |-> TRUE, art |-> "good",
         size |-> IF v = "v1" THEN 6 ELSE 2]]

VARIABLES
    s3,         \* the object store
    pointer,    \* the content of current_version.json
    dbFile,     \* database_V.sqlite, per version
    manFile,    \* the versions whose manifest_V.json is in the cache directory
    now,        \* the clock
    dbConn,     \* DatabaseManager._db_connection
    curVersion, \* DatabaseManager._current_version
    openConns,  \* the sqlite connections of the manager that are open
    thr,        \* the request threads calling the manager
    promo,      \* the running promote_version calls
    ev,         \* the running cleanup_old_cache call
    cl,         \* the running cleanup_old_versions call
    delCur      \* who has deleted the cache file of the version the pointer named

vars == <<s3, pointer, dbFile, manFile, now, dbConn, curVersion, openConns,
          thr, promo, ev, cl, delCur>>

(***************************************************************************)
(* The pointer file.                                                       *)
(***************************************************************************)
NoPointer == [kind |-> "absent"]
\* open(version_file, 'w') has truncated the file and json.dump has not run.
Truncated == [kind |-> "truncated"]

\* A record that loses the previous version.
PointerRecordNoPrevious(v, prev, force) ==
    [kind |-> "json", version |-> v, previous |-> None, forced |-> force,
     by |-> "version_manager"]

\* A record that loses the force flag.
PointerRecordNotForced(v, prev, force) ==
    [kind |-> "json", version |-> v, previous |-> prev, forced |-> FALSE,
     by |-> "version_manager"]

PointerRecord(v, prev, force) ==
    [kind |-> "json", version |-> v, previous |-> prev, forced |-> force,
     by |-> "version_manager"]

\* A read of the wrong key.
GetCurrentVersionPrevious ==
    IF pointer.kind = "json" THEN pointer.previous ELSE None

\* A read that falls back to a default version.
GetCurrentVersionDefault ==
    IF pointer.kind = "json" THEN pointer.version ELSE "v1"

\* get_current_version: None when the file is missing or json.load raises.
GetCurrentVersion ==
    IF pointer.kind = "json" THEN pointer.version ELSE None

(***************************************************************************)
(* The cache directory.                                                    *)
(***************************************************************************)
Absent == [content |-> "absent", mtime |-> 0]

Exists(v) == dbFile[v].content # "absent"

FileSize(f, v) ==
    IF f.content \in {"good", "bad"} THEN s3[v].size ELSE 0

RECURSIVE SumSizes(_, _)
SumSizes(files, S) ==
    IF S = {} THEN 0
    ELSE LET v == CHOOSE x \in S : TRUE
         IN FileSize(files[v], v) + SumSizes(files, S \ {v})

Cached(files) == {v \in Versions : files[v].content # "absent"}

\* sum(f.stat().st_size for f in cache_dir.glob("database_*.sqlite"))
TotalSize(files) == SumSizes(files, Cached(files))

\* _verify_database_integrity: the WeeklyStats table can be queried.
VerifyDatabaseIntegrity(v) == dbFile[v].content = "good"

IsCacheValidNoTTL(v) ==
    /\ Exists(v)
    /\ VerifyDatabaseIntegrity(v)

\* is_cache_valid
IsCacheValid(v) ==
    /\ Exists(v)
    /\ ~(now - dbFile[v].mtime > DATABASE_CACHE_TTL)
    /\ VerifyDatabaseIntegrity(v)

(***************************************************************************)
(* The manifest catalog.                                                   *)
(***************************************************************************)
Listed == {v \in Versions : s3[v].listed}

\* The first of S in descending timestamp order; equal timestamps keep the
\* listing order (list.sort is stable, also with reverse=True).
Newest(S) ==
    CHOOSE v \in S : \A w \in S :
        \/ s3[v].ts > s3[w].ts
        \/ s3[v].ts = s3[w].ts /\ Idx(v) <= Idx(w)

RECURSIVE SortNewestFirst(_)
SortNewestFirst(S) ==
    IF S = {} THEN << >>
    ELSE LET v == Newest(S) IN <<v>> \o SortNewestFirst(S \ {v})

\* get_available_versions: the versions newest first; comparing a missing
\* timestamp (None) raises TypeError and the listing comes back empty.
GetAvailableVersions ==
    IF Cardinality(Listed) >= 2 /\ \E v \in Listed : s3[v].ts = 0
    THEN << >>
    ELSE SortNewestFirst(Listed)

SeqToSet(s) == {s[i] : i \in 1..Len(s)}

(***************************************************************************)
(* Init: a manager and a version manager just constructed over an empty    *)
(* cache directory.                                                        *)
(***************************************************************************)
\* No file path: the thread is not writing a file.
NoPath == [ver |-> "none", suffix |-> "none"]

\* db0, man0, tracked0, open0, cur0: the cache directory and the manager's
\* handle state when the call began; target: the path download_file is
\* writing to; tries: the calls of download_database_from_s3 made; out, rows:
\* how the get_weekly_stats that made the call ended and the handle its rows
\* were read through; reported: the version in the endpoint's response.
IdleThread == [pc |-> "idle", arg |-> None, version |-> None, dl |-> "none",
               reopened |-> FALSE, stale |-> FALSE, warm |-> FALSE, conn0 |-> NoConn,
               result |-> NoConn, target |-> NoPath,
               db0 |-> [v \in Versions |-> Absent], man0 |-> {},
               tracked0 |-> NoConn, open0 |-> {}, cur0 |-> None,
               tries |-> 0, out |-> "none", rows |-> NoConn, reported |-> "unset"]

\* before: the current version in the pointer file when the call opened it
\* for writing; wrote: the record the call wrote; inuse: the uses the
\* snapshot files were in when the call unlinked them.
IdlePromo == [pc |-> "idle", op |-> "none", version |-> None, force |-> FALSE, cur |-> None,
              phase |-> "end", result |-> "none", before |-> None, wrote |-> NoPointer,
              inuse |-> {},
              ptr0 |-> NoPointer, db0 |-> {}, man0 |-> {}]

IdleEvict == [pc |-> "idle", cur |-> None, globbed |-> {}, files |-> << >>,
              total |-> 0, i |-> 1, files0 |-> << >>, removed |-> << >>,
              inuse |-> {}]

IdleClean == [pc |-> "idle", keep |-> 0, cur |-> None, todo |-> << >>,
              phase |-> "end", removed |-> << >>, db0 |-> {}, man0 |-> {},
              inuse |-> {}]

\* A state with the pointer file ptr and, for the versions of D, the snapshot
\* and the manifest that a download at time 0 left in the cache directory.
InitState(store, ptr, D) ==
    /\ s3 = store
    /\ pointer = ptr
    /\ dbFile = [v \in Versions |->
                    IF v \in D THEN [content |-> store[v].art, mtime |-> 0] ELSE Absent]
    /\ manFile = D
    /\ now = 0
    /\ dbConn = NoConn
    /\ curVersion = None
    /\ openConns = {}
    /\ thr = [t \in Threads |-> IdleThread]
    /\ promo = [p \in Promoters |-> IdlePromo]
    /\ ev = IdleEvict
    /\ cl = IdleClean
    /\ delCur = {}

Init == \E store \in {S3Mixed, S3Empty} : InitState(store, NoPointer, {})

AllIdle ==
    /\ \A t \in Threads : thr[t].pc = "idle"
    /\ \A p \in Promoters : promo[p].pc = "idle"
    /\ ev.pc = "idle"
    /\ cl.pc = "idle"

(***************************************************************************)
(* VersionManager._invalidate_cache(v), in four steps: test and unlink the *)
(* snapshot, test and unlink the manifest.  An unlink of a file that is    *)
(* gone raises FileNotFoundError, which the except clause swallows, ending *)
(* the call.                                                               *)
(***************************************************************************)
InvAfter(phase, v) ==
    CASE phase = "db_test"   -> IF Exists(v) THEN "db_unlink" ELSE "man_test"
      [] phase = "db_unlink" -> IF Exists(v) THEN "man_test" ELSE "end"
      [] phase = "man_test"  -> IF v \in manFile THEN "man_unlink" ELSE "end"
      [] OTHER               -> "end"

\* A download of v is in progress: download_database_from_s3(v) has begun and
\* has not returned.
Downloading(v) ==
    \E t \in Threads :
        /\ thr[t].version = v
        /\ thr[t].pc \in {"dl_manifest", "dl_artifact", "dl_writing", "dl_verify"}

\* The manager holds an open connection on the file of v.
HandleOpenOn(v) == \E c \in openConns : c.ver = v

\* The uses that database_v.sqlite is in.
InUse(v) ==
    {u \in {"download", "handle"} :
        \/ u = "download" /\ Downloading(v)
        \/ u = "handle" /\ HandleOpenOn(v)}

\* The uses that a step of _invalidate_cache(v) unlinks database_v.sqlite in.
UnlinkedInUse(phase, v) ==
    IF phase = "db_unlink" /\ Exists(v) THEN InUse(v) ELSE {}

\* An invalidation that leaves the manifest file.
InvalidateCacheKeepManifest(phase, v, actor) ==
    /\ dbFile' = IF phase = "db_unlink" THEN [dbFile EXCEPT ![v] = Absent] ELSE dbFile
    /\ manFile' = manFile
    /\ delCur' = IF phase = "db_unlink" /\ Exists(v) /\ GetCurrentVersion = v
                 THEN delCur \cup {actor} ELSE delCur

InvalidateCache(phase, v, actor) ==
    /\ dbFile' = IF phase = "db_unlink" THEN [dbFile EXCEPT ![v] = Absent] ELSE dbFile
    /\ manFile' = IF phase = "man_unlink" THEN manFile \ {v} ELSE manFile
    /\ delCur' = IF phase = "db_unlink" /\ Exists(v) /\ GetCurrentVersion = v
                 THEN delCur \cup {actor} ELSE delCur

(***************************************************************************)
(* VersionManager.promote_version(version, force)                          *)
(***************************************************************************)
\* A validation that accepts every version.
VersionExistsAlways(v) == TRUE

\* any(v['version'] == version for v in available_versions)
VersionExists(v) == v \in SeqToSet(GetAvailableVersions)

PromoteStart(p, v, f) ==
    /\ promo[p].pc = "idle"
    /\ promo' = [promo EXCEPT ![p] =
            [IdlePromo EXCEPT
                !.op = "promote", !.version = v, !.force = f,
                !.pc = IF ~VersionExists(v) /\ ~f THEN "done" ELSE "read",
                !.result = IF ~VersionExists(v) /\ ~f THEN "not_found" ELSE "none",
                !.ptr0 = pointer, !.db0 = Cached(dbFile), !.man0 = manFile]]
    /\ UNCHANGED <<s3, pointer, dbFile, manFile, now, dbConn, curVersion, openConns,
                   thr, ev, cl, delCur>>

PromoteRead(p) ==
    /\ promo[p].pc = "read"
    /\ promo' = [promo EXCEPT ![p].cur = GetCurrentVersion, ![p].pc = "open"]
    /\ UNCHANGED <<s3, pointer, dbFile, manFile, now, dbConn, curVersion, openConns,
                   thr, ev, cl, delCur>>

\* The version the pointer file names, or named before a promotion that is
\* now between its open(..., 'w') and its json.dump truncated it.
LastCurrent ==
    IF pointer.kind = "truncated" /\ \E q \in Promoters : promo[q].pc = "dump"
    THEN promo[CHOOSE q \in Promoters : promo[q].pc = "dump"].before
    ELSE GetCurrentVersion

PromoteOpen(p) ==
    /\ promo[p].pc = "open"
    /\ pointer' = Truncated
    /\ promo' = [promo EXCEPT ![p].pc = "dump", ![p].before = LastCurrent]
    /\ UNCHANGED <<s3, dbFile, manFile, now, dbConn, curVersion, openConns,
                   thr, ev, cl, delCur>>

PromoteDump(p) ==
    /\ promo[p].pc = "dump"
    /\ pointer' = PointerRecord(promo[p].version, promo[p].cur, promo[p].force)
    /\ promo' = [promo EXCEPT ![p] =
            IF promo[p].cur # None /\ promo[p].cur # promo[p].version
            THEN [@ EXCEPT !.pc = "inv", !.phase = "db_test", !.wrote = pointer']
            ELSE [@ EXCEPT !.pc = "done", !.result = "ok", !.wrote = pointer']]
    /\ UNCHANGED <<s3, dbFile, manFile, now, dbConn, curVersion, openConns,
                   thr, ev, cl, delCur>>

\* json.dump fails (the write raises OSError): the except clause returns
\* (False, ...) and the file stays as open(..., 'w') and the failed write
\* left it.
PromoteDumpFail(p) ==
    /\ promo[p].pc = "dump"
    /\ promo' = [promo EXCEPT ![p].pc = "done", ![p].result = "error"]
    /\ UNCHANGED <<s3, pointer, dbFile, manFile, now, dbConn, curVersion, openConns,
                   thr, ev, cl, delCur>>

\* A promotion that lets the error of its invalidation through to its own
\* except clause.
PromoteResultAfterRaise(phase, v) ==
    IF phase = "db_unlink" /\ ~Exists(v) THEN "error" ELSE "ok"

\* What promote_version returns after _invalidate_cache(v) ended in the step
\* phase: _invalidate_cache catches and logs every exception, so the return
\* True, "... promoted successfully" is always reached.
PromoteResultAfter(phase, v) == "ok"

PromoteInvalidate(p) ==
    /\ promo[p].pc = "inv"
    /\ InvalidateCache(promo[p].phase, promo[p].cur, "promote")
    /\ LET after == InvAfter(promo[p].phase, promo[p].cur)
           used == promo[p].inuse \cup UnlinkedInUse(promo[p].phase, promo[p].cur)
       IN promo' = [promo EXCEPT ![p] =
            IF after = "end"
            THEN [@ EXCEPT !.pc = "done", !.phase = "end",
                           !.result = PromoteResultAfter(promo[p].phase, promo[p].cur),
                           !.inuse = used]
            ELSE [@ EXCEPT !.phase = after, !.inuse = used]]
    /\ UNCHANGED <<s3, pointer, now, dbConn, curVersion, openConns, thr, ev, cl>>

PromoteReturn(p) ==
    /\ promo[p].pc = "done"
    /\ promo' = [promo EXCEPT ![p] = IdlePromo]
    /\ UNCHANGED <<s3, pointer, dbFile, manFile, now, dbConn, curVersion, openConns,
                   thr, ev, cl, delCur>>


(***************************************************************************)
(* DatabaseManager.cleanup_old_cache()                                     *)
(***************************************************************************)
MaxSizeBytes == MAX_CACHE_SIZE_GB * 1

\* A budget test in the wrong unit.
OverBudgetWrongUnit(total) == total > MaxSizeBytes * 1024

\* if total_size > max_size_bytes
OverBudget(total) == total > MaxSizeBytes

\* if total_size <= max_size_bytes: break
WithinBudget(total) == total <= MaxSizeBytes

\* A loop over the files in the order the directory lists them.
DirectoryOrder(S) ==
    {f \in [1..Cardinality(S) -> S] :
        \A i, j \in 1..Cardinality(S) : i # j => f[i] # f[j]}

\* db_files.sort(key=st_mtime): every ordering of S by ascending mtime (the
\* order of files with equal mtime is the directory's, which is arbitrary).
SortedByMtime(S) ==
    {f \in [1..Cardinality(S) -> S] :
        /\ \A i, j \in 1..Cardinality(S) : i # j => f[i] # f[j]
        /\ \A i, j \in 1..Cardinality(S) :
                i < j => dbFile[f[i]].mtime <= dbFile[f[j]].mtime}

\* if db_file.name != f"database_{current_version}.sqlite"
IsCurrentFileNever(v, cur) == FALSE

IsCurrentFile(v, cur) == v = cur

EvictStart ==
    /\ ev.pc = "idle"
    /\ ev' = [IdleEvict EXCEPT !.pc = "glob", !.cur = GetCurrentVersion,
                               !.files0 = dbFile]
    /\ UNCHANGED <<s3, pointer, dbFile, manFile, now, dbConn, curVersion, openConns,
                   thr, promo, cl, delCur>>

EvictGlob ==
    /\ ev.pc = "glob"
    /\ ev' = [ev EXCEPT !.globbed = Cached(dbFile), !.pc = "sum"]
    /\ UNCHANGED <<s3, pointer, dbFile, manFile, now, dbConn, curVersion, openConns,
                   thr, promo, cl, delCur>>

\* A stat of a file that has gone raises, and the except clause ends the call.
EvictSum ==
    /\ ev.pc = "sum"
    /\ ev' = IF \E v \in ev.globbed : ~Exists(v)
             THEN [ev EXCEPT !.pc = "done"]
             ELSE [ev EXCEPT !.total = SumSizes(dbFile, ev.globbed),
                             !.pc = IF OverBudget(SumSizes(dbFile, ev.globbed))
                                    THEN "sort" ELSE "done"]
    /\ UNCHANGED <<s3, pointer, dbFile, manFile, now, dbConn, curVersion, openConns,
                   thr, promo, cl, delCur>>

EvictSort ==
    /\ ev.pc = "sort"
    /\ IF \E v \in ev.globbed : ~Exists(v)
       THEN ev' = [ev EXCEPT !.pc = "done"]
       ELSE \E f \in SortedByMtime(ev.globbed) :
                ev' = [ev EXCEPT !.files = f, !.i = 1, !.pc = "loop"]
    /\ UNCHANGED <<s3, pointer, dbFile, manFile, now, dbConn, curVersion, openConns,
                   thr, promo, cl, delCur>>

\* One turn of the for loop up to the unlink.
EvictLoop ==
    /\ ev.pc = "loop"
    /\ IF ev.i > Len(ev.files)
       THEN /\ ev' = [ev EXCEPT !.pc = "done"]
            /\ UNCHANGED <<dbFile, delCur>>
       ELSE LET v == ev.files[ev.i] IN
            IF IsCurrentFile(v, ev.cur)
            THEN /\ ev' = [ev EXCEPT !.i = @ + 1]
                 /\ UNCHANGED <<dbFile, delCur>>
            ELSE IF ~Exists(v)
            THEN /\ ev' = [ev EXCEPT !.pc = "done"]
                 /\ UNCHANGED <<dbFile, delCur>>
            ELSE /\ dbFile' = [dbFile EXCEPT ![v] = Absent]
                 /\ delCur' = IF GetCurrentVersion = v
                              THEN delCur \cup {"evict"} ELSE delCur
                 /\ ev' = [ev EXCEPT !.removed = Append(@, v), !.pc = "recalc",
                                     !.inuse = @ \cup InUse(v)]
    /\ UNCHANGED <<s3, pointer, manFile, now, dbConn, curVersion, openConns,
                   thr, promo, cl>>

\* The recomputed total, and the break.
EvictRecalc ==
    /\ ev.pc = "recalc"
    /\ ev' = [ev EXCEPT !.total = TotalSize(dbFile),
                        !.i = @ + 1,
                        !.pc = IF WithinBudget(TotalSize(dbFile))
                               THEN "done" ELSE "loop"]
    /\ UNCHANGED <<s3, pointer, dbFile, manFile, now, dbConn, curVersion, openConns,
                   thr, promo, cl, delCur>>

EvictReturn ==
    /\ ev.pc = "done"
    /\ ev' = IdleEvict
    /\ UNCHANGED <<s3, pointer, dbFile, manFile, now, dbConn, curVersion, openConns,
                   thr, promo, cl, delCur>>

(***************************************************************************)
(* VersionManager.cleanup_old_versions(keep_count)                         *)
(***************************************************************************)
RECURSIVE RemoveFrom(_, _, _, _)
RemoveFrom(sorted, i, cur, keep) ==
    IF i > Len(sorted) THEN << >>
    ELSE (IF sorted[i] # cur /\ i - 1 >= keep THEN <<sorted[i]>> ELSE << >>)
         \o RemoveFrom(sorted, i + 1, cur, keep)

\* A cleanup that keeps the current version and keep further versions.
RECURSIVE RemoveOthersFrom(_, _, _, _)
RemoveOthersFrom(sorted, i, cur, others) ==
    IF i > Len(sorted) THEN << >>
    ELSE IF sorted[i] = cur THEN RemoveOthersFrom(sorted, i + 1, cur, others)
    ELSE (IF others = 0 THEN <<sorted[i]>> ELSE << >>)
         \o RemoveOthersFrom(sorted, i + 1, cur, IF others = 0 THEN 0 ELSE others - 1)

VersionsToRemoveKeepOthers(sorted, cur, keep) == RemoveOthersFrom(sorted, 1, cur, keep)

\* for i, version_info in enumerate(sorted_versions):
\*     if version != current_version and i >= keep_count
VersionsToRemove(sorted, cur, keep) == RemoveFrom(sorted, 1, cur, keep)

CleanStart(k) ==
    /\ cl.pc = "idle"
    /\ cl' = [IdleClean EXCEPT !.pc = "read", !.keep = k,
                               !.db0 = Cached(dbFile), !.man0 = manFile]
    /\ UNCHANGED <<s3, pointer, dbFile, manFile, now, dbConn, curVersion, openConns,
                   thr, promo, ev, delCur>>

CleanRead ==
    /\ cl.pc = "read"
    /\ LET cur == GetCurrentVersion
           todo == VersionsToRemove(GetAvailableVersions, cur, cl.keep)
       IN cl' = [cl EXCEPT !.cur = cur, !.todo = todo,
                           !.phase = IF todo = << >> THEN "end" ELSE "db_test",
                           !.pc = IF todo = << >> THEN "done" ELSE "inv"]
    /\ UNCHANGED <<s3, pointer, dbFile, manFile, now, dbConn, curVersion, openConns,
                   thr, promo, ev, delCur>>

CleanInvalidate ==
    /\ cl.pc = "inv"
    /\ InvalidateCache(cl.phase, Head(cl.todo), "cleanup")
    /\ LET after == InvAfter(cl.phase, Head(cl.todo))
           used == cl.inuse \cup UnlinkedInUse(cl.phase, Head(cl.todo))
       IN cl' = IF after # "end" THEN [cl EXCEPT !.phase = after, !.inuse = used]
                ELSE [cl EXCEPT !.removed = Append(@, Head(cl.todo)),
                                !.inuse = used,
                                !.todo = Tail(@),
                                !.phase = IF Tail(cl.todo) = << >> THEN "end" ELSE "db_test",
                                !.pc = IF Tail(cl.todo) = << >> THEN "done" ELSE "inv"]
    /\ UNCHANGED <<s3, pointer, now, dbConn, curVersion, openConns, thr, promo, ev>>

CleanReturn ==
    /\ cl.pc = "done"
    /\ cl' = IdleClean
    /\ UNCHANGED <<s3, pointer, dbFile, manFile, now, dbConn, curVersion, openConns,
                   thr, promo, ev, delCur>>


(***************************************************************************)
(* DatabaseManager.download_database_from_s3(version), as the steps of the *)
(* thread that called get_database_connection.  Every failure makes the    *)
(* download return False and the acquire return None.                      *)
(***************************************************************************)
\* A failure after which the call tries the download once more.
FailAcquireRetry(t) ==
    thr' = [thr EXCEPT ![t] =
        IF thr[t].dl = "started" /\ thr[t].tries < 2
        THEN [@ EXCEPT !.pc = "dlcheck", !.target = NoPath]
        ELSE [@ EXCEPT !.pc = "done", !.result = NoConn, !.target = NoPath]]

\* return None
FailAcquire(t) ==
    thr' = [thr EXCEPT ![t].pc = "done", ![t].result = NoConn, ![t].target = NoPath]

\* s3_client.download_file of the manifest, json.load, and the search for the
\* database_snapshot entry.
DownloadManifest(t) ==
    /\ thr[t].pc = "dl_manifest"
    /\ \E netfail \in BOOLEAN :
        LET v == thr[t].version IN
        IF netfail \/ ~s3[v].listed
        THEN /\ FailAcquire(t)
             /\ UNCHANGED manFile
        ELSE /\ manFile' = manFile \cup {v}
             /\ IF s3[v].snap
                THEN thr' = [thr EXCEPT ![t].pc = "dl_artifact"]
                ELSE FailAcquire(t)
    /\ UNCHANGED <<s3, pointer, dbFile, now, dbConn, curVersion, openConns,
                   promo, ev, cl, delCur>>

\* s3_client.download_file(bucket, key, str(db_path)) is boto3's managed
\* transfer: it streams the object into a file beside db_path whose name is
\* db_path plus a random extension drawn for the call, renames that file to
\* db_path when the last byte is written, and removes it when the transfer
\* fails.

\* A transfer that streams into a fixed temporary name.
DownloadTempPathFixed(t, v) == [ver |-> v, suffix |-> "tmp"]

\* The file the transfer of thread t streams into.
DownloadTempPath(t, v) == [ver |-> v, suffix |-> t]

\* A transfer that streams into db_path itself.
WhileStreamingInPlace(v) == [dbFile EXCEPT ![v] = [content |-> "partial", mtime |-> now]]

\* The final paths while the object is streamed: untouched.
WhileStreaming(v) == dbFile

\* download_file of the snapshot: the request, and the first bytes written.
DownloadArtifact(t) ==
    /\ thr[t].pc = "dl_artifact"
    /\ \E netfail \in BOOLEAN :
        LET v == thr[t].version IN
        IF netfail \/ s3[v].art = "missing"
        THEN /\ FailAcquire(t)
             /\ UNCHANGED dbFile
        ELSE /\ dbFile' = WhileStreaming(v)
             /\ thr' = [thr EXCEPT ![t].pc = "dl_writing",
                                   ![t].target = DownloadTempPath(t, v)]
    /\ UNCHANGED <<s3, pointer, manFile, now, dbConn, curVersion, openConns,
                   promo, ev, cl, delCur>>

\* download_file of the snapshot: the rest of the stream and the rename to
\* database_V.sqlite, or a failure part-way and the removal of the temporary
\* file.
DownloadRename(t) ==
    /\ thr[t].pc = "dl_writing"
    /\ \E netfail \in BOOLEAN :
        LET v == thr[t].version IN
        IF netfail
        THEN /\ FailAcquire(t)
             /\ UNCHANGED dbFile
        ELSE /\ dbFile' = [dbFile EXCEPT ![v] = [content |-> s3[v].art, mtime |-> now]]
             /\ thr' = [thr EXCEPT ![t].pc = "dl_verify", ![t].target = NoPath]
    /\ UNCHANGED <<s3, pointer, manFile, now, dbConn, curVersion, openConns,
                   promo, ev, cl, delCur>>

\* The integrity check of the downloaded file, and the unlink when it fails
\* (sqlite3.connect on a path that has gone creates an empty file, which
\* fails the check and is unlinked again).
DownloadVerify(t) ==
    /\ thr[t].pc = "dl_verify"
    /\ LET v == thr[t].version IN
        IF VerifyDatabaseIntegrity(v)
        THEN /\ thr' = [thr EXCEPT ![t].pc = "close", ![t].dl = "ok"]
             /\ UNCHANGED dbFile
        ELSE /\ dbFile' = [dbFile EXCEPT ![v] = Absent]
             /\ FailAcquire(t)
    /\ UNCHANGED <<s3, pointer, manFile, now, dbConn, curVersion, openConns,
                   promo, ev, cl, delCur>>

(***************************************************************************)
(* DatabaseManager.get_database_connection(version)                        *)
(*                                                                         *)
(* A connection is the file it was opened on and the thread that opened    *)
(* it: sqlite3.connect is called with the default check_same_thread, so a  *)
(* close() from another thread raises ProgrammingError.  A connection      *)
(* object that nothing refers to any more is closed by its deallocation.   *)
(***************************************************************************)
NewConn(t, v, f) == [ver |-> v, owner |-> t, content |-> f.content, mtime |-> f.mtime]

Referenced(conns, tracked, threads) ==
    {c \in conns : c = tracked \/ \E t \in Threads :
                        threads[t].pc = "done" /\ threads[t].result = c}

Expired(v) == Exists(v) /\ now - dbFile[v].mtime > DATABASE_CACHE_TTL

\* The manager holds an open handle on the file of v as it is now, and the
\* file is within its TTL.
Warm(v) ==
    /\ dbConn # NoConn
    /\ dbConn \in openConns
    /\ curVersion = v
    /\ dbConn.ver = v
    /\ Exists(v)
    /\ dbConn.content = "good"
    /\ dbFile[v] = [content |-> dbConn.content, mtime |-> dbConn.mtime]
    /\ ~Expired(v)

AcquireStart(t, a) ==
    /\ thr[t].pc = "idle"
    /\ thr' = [thr EXCEPT ![t] =
            [IdleThread EXCEPT !.pc = "resolve", !.arg = a,
                               !.db0 = dbFile, !.man0 = manFile, !.tracked0 = dbConn,
                               !.open0 = openConns, !.cur0 = curVersion]]
    /\ UNCHANGED <<s3, pointer, dbFile, manFile, now, dbConn, curVersion, openConns,
                   promo, ev, cl, delCur>>

\* if version is None: version = self.get_current_version()
\* if not version: return None
AcquireResolve(t) ==
    /\ thr[t].pc = "resolve"
    /\ LET v == IF thr[t].arg = None THEN GetCurrentVersion ELSE thr[t].arg IN
        thr' = [thr EXCEPT ![t] =
            IF v = None
            THEN [@ EXCEPT !.pc = "done", !.result = NoConn]
            ELSE [@ EXCEPT !.pc = "check", !.version = v,
                           !.stale = Expired(v), !.warm = Warm(v), !.conn0 = dbConn]]
    /\ UNCHANGED <<s3, pointer, dbFile, manFile, now, dbConn, curVersion, openConns,
                   promo, ev, cl, delCur>>

NeedsUpdateAlways(v) == TRUE

\* self._current_version != version or not self.is_cache_valid(version)
\*     or self._db_connection is None
NeedsUpdate(v) ==
    \/ curVersion # v
    \/ ~IsCacheValid(v)
    \/ dbConn = NoConn

AcquireCheck(t) ==
    /\ thr[t].pc = "check"
    /\ thr' = [thr EXCEPT ![t].pc = IF NeedsUpdate(thr[t].version) THEN "dlcheck" ELSE "ret"]
    /\ UNCHANGED <<s3, pointer, dbFile, manFile, now, dbConn, curVersion, openConns,
                   promo, ev, cl, delCur>>

\* if not self.is_cache_valid(version): download
AcquireDownloadCheck(t) ==
    /\ thr[t].pc = "dlcheck"
    /\ thr' = [thr EXCEPT ![t] =
            IF ~IsCacheValid(thr[t].version)
            THEN [@ EXCEPT !.pc = "dl_manifest", !.dl = "started", !.tries = @ + 1]
            ELSE [@ EXCEPT !.pc = "close"]]
    /\ UNCHANGED <<s3, pointer, dbFile, manFile, now, dbConn, curVersion, openConns,
                   promo, ev, cl, delCur>>

\* A replacement that leaves the previous connection open.
AcquireNoClose(t) ==
    /\ thr[t].pc = "close"
    /\ thr' = [thr EXCEPT ![t].pc = "open"]
    /\ UNCHANGED <<s3, pointer, dbFile, manFile, now, dbConn, curVersion, openConns,
                   promo, ev, cl, delCur>>

\* if self._db_connection: self._db_connection.close()
AcquireClose(t) ==
    /\ thr[t].pc = "close"
    /\ IF dbConn = NoConn
       THEN /\ thr' = [thr EXCEPT ![t].pc = "open"]
            /\ UNCHANGED openConns
       ELSE IF dbConn.owner # t
       THEN /\ FailAcquire(t)
            /\ UNCHANGED openConns
       ELSE /\ thr' = [thr EXCEPT ![t].pc = "open"]
            /\ openConns' = openConns \ {dbConn}
    /\ UNCHANGED <<s3, pointer, dbFile, manFile, now, dbConn, curVersion,
                   promo, ev, cl, delCur>>

\* self._db_connection = sqlite3.connect(str(db_path)); connect creates an
\* empty database file when the path does not exist.
AcquireOpen(t) ==
    /\ thr[t].pc = "open"
    /\ LET v == thr[t].version
           f == IF Exists(v) THEN dbFile[v] ELSE [content |-> "empty", mtime |-> now]
           c == NewConn(t, v, f)
       IN /\ dbFile' = [dbFile EXCEPT ![v] = f]
          /\ dbConn' = c
          /\ thr' = [thr EXCEPT ![t].pc = "setver", ![t].reopened = TRUE]
          /\ openConns' = Referenced(openConns \cup {c}, c, thr')
    /\ UNCHANGED <<s3, pointer, manFile, now, curVersion, promo, ev, cl, delCur>>

\* self._current_version = version
AcquireSetVersion(t) ==
    /\ thr[t].pc = "setver"
    /\ curVersion' = thr[t].version
    /\ thr' = [thr EXCEPT ![t].pc = "ret"]
    /\ UNCHANGED <<s3, pointer, dbFile, manFile, now, dbConn, openConns,
                   promo, ev, cl, delCur>>

\* return self._db_connection
AcquireReturn(t) ==
    /\ thr[t].pc = "ret"
    /\ thr' = [thr EXCEPT ![t].pc = "done", ![t].result = dbConn]
    /\ UNCHANGED <<s3, pointer, dbFile, manFile, now, dbConn, curVersion, openConns,
                   promo, ev, cl, delCur>>

\* The caller is done with the handle it was given.
AcquireRelease(t) ==
    /\ thr[t].pc = "done"
    /\ thr' = [thr EXCEPT ![t] = IdleThread]
    /\ openConns' = Referenced(openConns, dbConn, thr')
    /\ UNCHANGED <<s3, pointer, dbFile, manFile, now, dbConn, curVersion,
                   promo, ev, cl, delCur>>

\* A read that falls back on the handle the manager still tracks when the
\* acquire returned none.
WeeklyStatsOutcomeFallback(conn) ==
    IF conn # NoConn /\ conn \in openConns /\ conn.content = "good"
    THEN [out |-> "rows", rows |-> conn]
    ELSE IF dbConn # NoConn /\ dbConn \in openConns /\ dbConn.content = "good"
    THEN [out |-> "rows", rows |-> dbConn]
    ELSE [out |-> "error", rows |-> NoConn]

\* conn = self.get_database_connection(); if not conn: raise; the queries run
\* on conn.cursor() and raise on a closed handle or on a file without the
\* table; the except clause re-raises.
WeeklyStatsOutcome(conn) ==
    IF conn # NoConn /\ conn \in openConns /\ conn.content = "good"
    THEN [out |-> "rows", rows |-> conn]
    ELSE [out |-> "error", rows |-> NoConn]

\* DatabaseManager.get_weekly_stats(query), after its call of
\* get_database_connection() has returned.
GetWeeklyStats(t) ==
    /\ thr[t].pc = "done"
    /\ thr[t].arg = None
    /\ thr[t].out = "none"
    /\ LET r == WeeklyStatsOutcome(thr[t].result) IN
        thr' = [thr EXCEPT ![t].out = r.out, ![t].rows = r.rows]
    /\ UNCHANGED <<s3, pointer, dbFile, manFile, now, dbConn, curVersion, openConns,
                   promo, ev, cl, delCur>>

\* version=current_version or "unknown", with current_version read from the
\* pointer file after the rows came back.
ReportedVersion == IF GetCurrentVersion = None THEN "unknown" ELSE GetCurrentVersion

\* The endpoint get_weekly_stats of main.py after db.get_weekly_stats(query):
\* the response with the rows and a version, or HTTP 500 when the read
\* raised.
WeeklyStatsRespond(t) ==
    /\ thr[t].pc = "done"
    /\ thr[t].out # "none"
    /\ thr[t].reported = "unset"
    /\ thr' = [thr EXCEPT ![t].reported =
                IF thr[t].out = "rows" THEN ReportedVersion ELSE "error500"]
    /\ UNCHANGED <<s3, pointer, dbFile, manFile, now, dbConn, curVersion, openConns,
                   promo, ev, cl, delCur>>

\* DatabaseManager.close()
ManagerClose(t) ==
    /\ thr[t].pc = "idle"
    /\ dbConn # NoConn
    /\ dbConn.owner = t
    /\ dbConn' = NoConn
    /\ openConns' = Referenced(openConns \ {dbConn}, NoConn, thr)
    /\ UNCHANGED <<s3, pointer, dbFile, manFile, now, curVersion, thr,
                   promo, ev, cl, delCur>>

\* Time passes.
Tick ==
    /\ now < MaxTime
    /\ now' = now + 1
    /\ UNCHANGED <<s3, pointer, dbFile, manFile, dbConn, curVersion, openConns,
                   thr, promo, ev, cl, delCur>>

(***************************************************************************)
(* Spec: one manager used by one thread, one operator; an operation starts *)
(* when no other is running.                                               *)
(***************************************************************************)
PromoteTargets == {"v1", "v2", "v5"}
AcquireTargets == {None, "v1", "v2", "v3"}

PromoteSteps(P) ==
    \E p \in P : \/ PromoteRead(p) \/ PromoteOpen(p) \/ PromoteDump(p)
                 \/ PromoteInvalidate(p) \/ PromoteReturn(p)

EvictSteps ==
    EvictGlob \/ EvictSum \/ EvictSort \/ EvictLoop \/ EvictRecalc \/ EvictReturn

CleanSteps ==
    CleanRead \/ CleanInvalidate \/ CleanReturn

AcquireSteps(T) ==
    \E t \in T : \/ AcquireResolve(t) \/ AcquireCheck(t) \/ AcquireDownloadCheck(t)
                 \/ DownloadManifest(t) \/ DownloadArtifact(t) \/ DownloadRename(t)
                 \/ DownloadVerify(t)
                 \/ AcquireClose(t) \/ AcquireOpen(t) \/ AcquireSetVersion(t)
                 \/ AcquireReturn(t) \/ AcquireRelease(t)

Next ==
    \/ AllIdle /\ \E v \in PromoteTargets, f \in BOOLEAN : PromoteStart("p1", v, f)
    \/ AllIdle /\ EvictStart
    \/ AllIdle /\ \E a \in AcquireTargets : AcquireStart("t1", a)
    \/ AllIdle /\ ManagerClose("t1")
    \/ AllIdle /\ Tick
    \/ PromoteSteps({"p1"})
    \/ EvictSteps
    \/ AcquireSteps({"t1"})
    \/ GetWeeklyStats("t1")
    \/ WeeklyStatsRespond("t1")

Spec == Init /\ [][Next]_vars


(***************************************************************************)
(* Claims checked under Spec.                                              *)
(***************************************************************************)
\* The version a pointer file content names as current.
CurrentOf(ptr) == IF ptr.kind = "json" THEN ptr.version ELSE None

\* C1: after a successful promote(V) of a catalogued version V, reading the
\* pointer returns V and the record's previous field is the version that was
\* current just before the call (none if there was no pointer).
C1_PromoteRecordsPrevious ==
    \A p \in Promoters :
        (promo[p].pc = "done" /\ promo[p].result = "ok"
            /\ promo[p].version \in Listed /\ GetAvailableVersions # << >>)
        => /\ pointer.kind = "json"
           /\ GetCurrentVersion = promo[p].version
           /\ pointer.previous = CurrentOf(promo[p].ptr0)

C1_Witness ==
    \E p \in Promoters :
        /\ promo[p].pc = "done" /\ promo[p].result = "ok"
        /\ promo[p].version \in Listed
        /\ CurrentOf(promo[p].ptr0) \notin {None, promo[p].version}
        /\ pointer.previous = CurrentOf(promo[p].ptr0)

\* C2: promote(V, force=false) with V absent from the listing fails with the
\* validation error, leaving the pointer record and every cached snapshot and
\* manifest file as they were.
C2_UnlistedPromoteRejected ==
    \A p \in Promoters :
        (promo[p].pc = "done" /\ ~promo[p].force
            /\ promo[p].version \notin SeqToSet(GetAvailableVersions))
        => /\ promo[p].result = "not_found"
           /\ pointer = promo[p].ptr0
           /\ Cached(dbFile) = promo[p].db0
           /\ manFile = promo[p].man0

C2_Witness ==
    \E p \in Promoters :
        /\ promo[p].pc = "done" /\ ~promo[p].force
        /\ promo[p].version \notin SeqToSet(GetAvailableVersions)
        /\ promo[p].result = "not_found"
        /\ promo[p].ptr0.kind = "json"
        /\ promo[p].db0 # {} /\ promo[p].man0 # {}

\* C3: promote(V, force=true) succeeds whether or not V is listed, also when
\* the listing is empty, and writes a record with current = V and forced = true.
C3_ForcedPromoteSucceeds ==
    \A p \in Promoters :
        (promo[p].pc = "done" /\ promo[p].force)
        => /\ promo[p].result = "ok"
           /\ pointer.kind = "json"
           /\ pointer.version = promo[p].version
           /\ pointer.forced = TRUE

C3_Witness ==
    \E p \in Promoters :
        /\ promo[p].pc = "done" /\ promo[p].force /\ promo[p].result = "ok"
        /\ GetAvailableVersions = << >>
        /\ pointer.kind = "json" /\ pointer.forced

\* C5: a run of cleanup_old_cache with nothing else running never removes the
\* cached snapshot of the pointer's current version, whatever the files and
\* their modification times, also when that file is the oldest.
C5_EvictionKeepsCurrent ==
    ev.pc # "idle"
    => /\ \A i \in 1..Len(ev.removed) : ev.removed[i] # GetCurrentVersion
       /\ \A v \in Cached(ev.files0) : v = GetCurrentVersion => Exists(v)

C5_Witness ==
    /\ ev.pc = "done"
    /\ ev.removed # << >>
    /\ GetCurrentVersion \in Cached(ev.files0)
    /\ Exists(GetCurrentVersion)
    /\ \A v \in Cached(ev.files0) \ {GetCurrentVersion} :
            ev.files0[GetCurrentVersion].mtime < ev.files0[v].mtime

C8_SecondAcquireReuses ==
    \A t \in Threads :
        (thr[t].pc = "done" /\ thr[t].warm)
        => /\ thr[t].result # NoConn
           /\ thr[t].result = thr[t].conn0
           /\ thr[t].result \in openConns
           /\ thr[t].dl = "none"
           /\ ~thr[t].reopened

C8_Witness ==
    \E t \in Threads :
        /\ thr[t].pc = "done" /\ thr[t].warm
        /\ thr[t].result = thr[t].conn0
        /\ thr[t].result.ver = thr[t].version

\* C9: an acquire of a version whose cached file is older than the TTL returns
\* a handle only if the download and the integrity check ran in that acquire.
C9_ExpiredNeverReused ==
    \A t \in Threads :
        (thr[t].pc = "done" /\ thr[t].stale /\ thr[t].result # NoConn)
        => /\ thr[t].dl = "ok"
           /\ thr[t].reopened

C9_Witness ==
    \E t \in Threads :
        /\ thr[t].pc = "done" /\ thr[t].stale /\ thr[t].result # NoConn
        /\ thr[t].conn0 # NoConn /\ thr[t].conn0.ver = thr[t].version
        /\ thr[t].dl = "ok"

\* C11: when one acquire call replaces the manager's handle (another version,
\* or a re-open after expiry), the previous handle is closed before the new
\* one is opened: no handle is open when the call opens the new one, and only
\* the new one is open from then on.
C11_CloseBeforeOpen ==
    \A t \in Threads :
        /\ thr[t].pc = "open" => openConns = {}
        /\ (thr[t].pc \in {"setver", "ret", "done"} /\ thr[t].reopened)
            => openConns = {dbConn}

C11_Witness ==
    \E t \in Threads :
        /\ thr[t].pc = "setver"
        /\ thr[t].tracked0 # NoConn /\ thr[t].tracked0 \in thr[t].open0
        /\ thr[t].tracked0.ver # thr[t].version
        /\ dbConn # thr[t].tracked0
        /\ openConns = {dbConn}

C13_FailedDownloadLeavesNothing ==
    \A t \in Threads :
        (thr[t].pc = "done" /\ thr[t].dl = "started")
        => /\ dbFile = thr[t].db0
           /\ manFile = thr[t].man0

\* C21: after a successful promote(V2) issued while the pointer names V1,
\* V1 # V2, with V1's snapshot cached, the snapshot and the manifest of V1 are
\* gone from the cache directory and the pointer reports current V2, previous
\* V1; a promote(V) while V is current deletes no cache file.
C21_PromoteEvictsPrevious ==
    \A p \in Promoters :
        (promo[p].pc = "done" /\ promo[p].result = "ok")
        => LET V1 == CurrentOf(promo[p].ptr0) IN
           /\ (V1 \notin {None, promo[p].version} /\ V1 \in promo[p].db0)
                => /\ ~Exists(V1)
                   /\ V1 \notin manFile
                   /\ pointer.kind = "json"
                   /\ pointer.version = promo[p].version
                   /\ pointer.previous = V1
           /\ V1 = promo[p].version
                => /\ Cached(dbFile) = promo[p].db0
                   /\ manFile = promo[p].man0

C21_Witness ==
    \E p \in Promoters :
        /\ promo[p].pc = "done" /\ promo[p].result = "ok"
        /\ CurrentOf(promo[p].ptr0) \notin {None, promo[p].version}
        /\ CurrentOf(promo[p].ptr0) \in promo[p].db0
        /\ CurrentOf(promo[p].ptr0) \in promo[p].man0
        /\ ~Exists(CurrentOf(promo[p].ptr0))
        /\ CurrentOf(promo[p].ptr0) \notin manFile

\* C29: a run of cleanup_old_cache with nothing else running removes
\* non-current files oldest modification time first (a file is removed only
\* after every strictly older non-current file), and every removal happens
\* while the total of the files still cached exceeds the budget: nothing is
\* removed when the total starts within budget, and nothing more once a
\* recomputed total is within budget.
C29_OldestFirstWhileOverBudget ==
    LET f0 == ev.files0
        rem == ev.removed
        Before(i) == Cached(f0) \ {rem[j] : j \in 1..(i - 1)}
    IN /\ \A i, j \in 1..Len(rem) :
              i < j => f0[rem[i]].mtime <= f0[rem[j]].mtime
       /\ \A i \in 1..Len(rem) : \A v \in Cached(f0) :
              (v # ev.cur /\ f0[v].mtime < f0[rem[i]].mtime)
              => \E j \in 1..(i - 1) : rem[j] = v
       /\ \A i \in 1..Len(rem) :
              /\ rem[i] \in Before(i)
              /\ rem[i] # ev.cur
              /\ SumSizes(f0, Before(i)) > MAX_CACHE_SIZE_GB
       /\ ev.pc # "idle" => Cached(dbFile) = Before(Len(rem) + 1)

C29_Witness ==
    /\ ev.pc = "done"
    /\ Len(ev.removed) = 1
    /\ \E v \in Cached(dbFile) :
            /\ v # ev.cur
            /\ ev.files0[ev.removed[1]].mtime < ev.files0[v].mtime
    /\ TotalSize(dbFile) <= MAX_CACHE_SIZE_GB

\* C31: an acquire without a version, made after a promotion wrote the pointer
\* and while the manager's open handle is bound to another version, resolves
\* the pointer's version, closes the handle bound to the old version, and
\* returns a handle bound to the pointer's version or no handle.
C31_AcquireAfterPromoteDropsOld ==
    \A t \in Threads :
        (/\ thr[t].pc = "done" /\ thr[t].arg = None
         /\ pointer.kind = "json"
         /\ thr[t].tracked0 # NoConn /\ thr[t].tracked0 \in thr[t].open0
         /\ thr[t].tracked0.ver # pointer.version)
        => /\ thr[t].version = pointer.version
           /\ thr[t].result # thr[t].tracked0
           /\ thr[t].result # NoConn => thr[t].result.ver = pointer.version
           /\ thr[t].tracked0 \notin openConns

\* C33: one call of get_database_connection calls download_database_from_s3
\* at most once; when that download fails the call returns no handle without
\* a second attempt and without opening a connection, and the version has no
\* valid cached snapshot (no file, or a file that fails the validity checks).
C33_OneDownloadAttempt ==
    \A t \in Threads :
        /\ thr[t].tries <= 1
        /\ (thr[t].pc = "done" /\ thr[t].dl = "started")
           => /\ thr[t].tries = 1
              /\ thr[t].result = NoConn
              /\ ~thr[t].reopened
              /\ ~IsCacheValid(thr[t].version)

C33_Witness ==
    \E t \in Threads :
        /\ thr[t].pc = "done" /\ thr[t].dl = "started" /\ thr[t].tries = 1
        /\ thr[t].result = NoConn
        /\ s3[thr[t].version].art = "bad"
        /\ ~Exists(thr[t].version)

\* C27: get_weekly_stats returns rows only through the handle that its acquire
\* of the pointer's current version returned, open on the verified, unexpired
\* file of that version; when the acquire returned no handle (the download or
\* the integrity check failed, or the pointer names a version without a
\* manifest) the read fails and returns no rows, whatever handle was open
\* before.
C27_RowsOnlyThroughAcquiredHandle ==
    \A t \in Threads :
        /\ thr[t].out = "rows"
           => /\ thr[t].result # NoConn
              /\ thr[t].rows = thr[t].result
              /\ thr[t].result \in openConns
              /\ thr[t].version = GetCurrentVersion
              /\ thr[t].result.ver = thr[t].version
              /\ thr[t].result.content = "good"
              /\ dbFile[thr[t].version] = [content |-> thr[t].result.content,
                                           mtime |-> thr[t].result.mtime]
              /\ ~Expired(thr[t].version)
        /\ (thr[t].out # "none" /\ thr[t].result = NoConn)
           => /\ thr[t].out = "error"
              /\ thr[t].rows = NoConn

C27_Witness ==
    \E t \in Threads :
        /\ thr[t].out = "error"
        /\ thr[t].dl = "started"
        /\ thr[t].version = "v5"
        /\ dbConn # NoConn /\ dbConn \in openConns /\ dbConn.content = "good"

\* C20: an acquire without a version while no pointer file exists returns no
\* handle, downloads nothing, and leaves the manager's handle state and the
\* cache directory as they were.
C20_NoPointerNoHandle ==
    \A t \in Threads :
        (thr[t].pc = "done" /\ thr[t].arg = None /\ pointer = NoPointer)
        => /\ thr[t].result = NoConn
           /\ thr[t].dl = "none" /\ ~thr[t].reopened
           /\ dbFile = thr[t].db0 /\ manFile = thr[t].man0
           /\ dbConn = thr[t].tracked0 /\ openConns = thr[t].open0
           /\ curVersion = thr[t].cur0

C20_Witness ==
    \E t \in Threads :
        /\ thr[t].pc = "done" /\ thr[t].arg = None /\ pointer = NoPointer
        /\ thr[t].result = NoConn
        /\ thr[t].tracked0 # NoConn /\ thr[t].tracked0 \in openConns
        /\ Cached(dbFile) # {}


(***************************************************************************)
(* SpecCleanup: cleanup_old_versions over a catalog of five versions, from *)
(* every state that downloads of some of them and one promotion leave.     *)
(***************************************************************************)
InitCleanup ==
    \E D \in SUBSET Versions :
        \E ptr \in {NoPointer} \cup {PointerRecord(v, None, FALSE) : v \in Versions} :
            InitState(S3Five, ptr, D)

NextCleanup ==
    \/ AllIdle /\ \E k \in 0..MaxKeep : CleanStart(k)
    \/ CleanSteps

SpecCleanup == InitCleanup /\ [][NextCleanup]_vars

\* The listed versions uploaded after v.
Newer(v) == {w \in Listed : s3[w].ts > s3[v].ts}

\* C7 as stated: cleanup_old_versions(keep_count) retains the cached snapshot
\* and manifest of the current version and of the keep_count most recently
\* uploaded other versions, and removes those of every other known version
\* (five versions, current v5, keep_count 2: v2 and v1 go, v5, v4, v3 stay).
C7_KeepsCurrentPlusOthers ==
    cl.pc = "done"
    => \A v \in Listed :
        LET kept == \/ v = GetCurrentVersion
                    \/ Cardinality(Newer(v) \ {GetCurrentVersion}) < cl.keep
        IN /\ Exists(v) <=> (v \in cl.db0 /\ kept)
           /\ v \in manFile <=> (v \in cl.man0 /\ kept)

\* C7 amended: cleanup_old_versions(keep_count) retains the cached snapshot and
\* manifest of the current version and of the keep_count most recently
\* uploaded versions, the current one counted among them when it is one of
\* them, and removes those of every other known version (five versions,
\* current v5, keep_count 2: v3, v2 and v1 go, v5 and v4 stay).
C7_KeepsNewestAndCurrent ==
    cl.pc = "done"
    => /\ \A v \in Listed :
            LET kept == \/ v = GetCurrentVersion
                        \/ Cardinality(Newer(v)) < cl.keep
            IN /\ Exists(v) <=> (v \in cl.db0 /\ kept)
               /\ v \in manFile <=> (v \in cl.man0 /\ kept)
               /\ v \in SeqToSet(cl.removed) <=> ~kept
       /\ (Listed = Versions /\ GetCurrentVersion = "v5" /\ cl.keep = 2)
            => cl.removed = <<"v3", "v2", "v1">>

C7_Witness ==
    /\ cl.pc = "done"
    /\ GetCurrentVersion = "v5"
    /\ cl.keep = 2
    /\ cl.db0 = Versions
    /\ cl.removed = <<"v3", "v2", "v1">>
    /\ Cached(dbFile) = {"v4", "v5"}
    /\ manFile = {"v4", "v5"}


(***************************************************************************)
(* SpecRace: a promotion, cleanup_old_cache and cleanup_old_versions run   *)
(* as separate processes over one cache directory holding the snapshots of *)
(* v1 and v2; their steps interleave freely (the code takes no lock).      *)
(***************************************************************************)
RaceVersions == {"v1", "v2"}

InitRace ==
    \E v \in RaceVersions :
        InitState(S3Mixed, PointerRecord(v, None, FALSE), RaceVersions)

\* One promotion, one cleanup_old_cache and one cleanup_old_versions.
NextRace ==
    \/ \E v \in RaceVersions : PromoteStart("p1", v, FALSE)
    \/ EvictStart
    \/ \E k \in 0..MaxKeep : CleanStart(k)
    \/ PromoteRead("p1") \/ PromoteOpen("p1") \/ PromoteDump("p1")
    \/ PromoteInvalidate("p1")
    \/ EvictGlob \/ EvictSum \/ EvictSort \/ EvictLoop \/ EvictRecalc
    \/ CleanRead \/ CleanInvalidate

SpecRace == InitRace /\ [][NextRace]_vars

\* C4: under any interleaving of promotions, cleanup_old_cache and
\* cleanup_old_versions, no unlink by eviction, cleanup or a promotion's
\* invalidation removes the cached snapshot of the version that the pointer
\* names as current at the moment of the unlink.
C4_CurrentNeverDeleted == delCur = {}

(***************************************************************************)
(* SpecThreads: two request threads call get_database_connection on one    *)
(* manager; the pointer names v1 and nothing is cached yet.                *)
(***************************************************************************)
ThreadTargets == {None, "v2"}

InitThreads == InitState(S3Mixed, PointerRecord("v1", None, FALSE), {})

NextThreads ==
    \/ \E t \in Threads, a \in ThreadTargets : AcquireStart(t, a)
    \/ AcquireSteps(Threads)
    \/ \E t \in Threads : ManagerClose(t)

SpecThreads == InitThreads /\ [][NextThreads]_vars

\* C10: in every reachable state, under any interleaving of acquire calls on
\* one manager, the manager has at most one open handle: every connection it
\* opened and that is still open is the one it tracks.
C10_AtMostOneHandle ==
    /\ Cardinality(openConns) <= 1
    /\ openConns \subseteq {dbConn}

\* C34: whenever no call is in progress on the manager and the handle it
\* tracks is open, _current_version is the version of the file that handle
\* was opened on; and a failed acquire leaves the handle that was tracked and
\* open when it began open, if it is still the tracked one.
C34_BoundVersionIsHandleVersion ==
    (\A t \in Threads : thr[t].pc \in {"idle", "done"})
    => /\ (dbConn # NoConn /\ dbConn \in openConns) => curVersion = dbConn.ver
       /\ \A t \in Threads :
             (/\ thr[t].pc = "done" /\ thr[t].result = NoConn
              /\ thr[t].tracked0 # NoConn /\ thr[t].tracked0 \in thr[t].open0
              /\ dbConn = thr[t].tracked0)
             => thr[t].tracked0 \in openConns

InitFault ==
    \E ptr \in {NoPointer} \cup {PointerRecord(v, None, FALSE) : v \in RaceVersions} :
        InitState(S3Mixed, ptr, RaceVersions)

NextFault ==
    \/ AllIdle /\ \E v \in PromoteTargets, f \in BOOLEAN : PromoteStart("p1", v, f)
    \/ PromoteSteps({"p1"})
    \/ PromoteDumpFail("p1")
    \/ AllIdle /\ AcquireStart("t1", None)
    \/ AcquireSteps({"t1"})

SpecFault == InitFault /\ [][NextFault]_vars

\* C25: a read of the pointer returns none, and the caller goes on, when the
\* file does not exist or cannot be parsed; otherwise it returns the version
\* recorded in the file.
C25_ReadPointerNoneOrVersion ==
    LET expected == CASE pointer.kind \in {"absent", "truncated"} -> None
                      [] OTHER -> pointer.version
    IN /\ \A p \in Promoters : promo[p].pc = "open" => promo[p].cur = expected
       /\ \A t \in Threads :
            (thr[t].arg = None /\ thr[t].pc \notin {"idle", "resolve"})
            => thr[t].version = expected

C25_Witness ==
    \E p \in Promoters :
        /\ promo[p].pc = "open"
        /\ pointer.kind = "truncated"
        /\ promo[p].cur = None

\* C14: when a promotion fails during its write of the pointer, a read of
\* the pointer afterwards returns the version that was current before the
\* promotion began: the file is not left empty, truncated or partly written.
C14_FailedPromoteKeepsPointer ==
    \A p \in Promoters :
        (promo[p].pc = "done" /\ promo[p].result = "error")
        => /\ pointer.kind # "truncated"
           /\ GetCurrentVersion = CurrentOf(promo[p].ptr0)

(***************************************************************************)
(* SpecRead: a request thread resolves the current version while a         *)
(* promotion to v1 or v2 runs in another process.                          *)
(***************************************************************************)
NextRead ==
    \/ \E v \in RaceVersions : PromoteStart("p1", v, FALSE)
    \/ PromoteRead("p1") \/ PromoteOpen("p1") \/ PromoteDump("p1")
    \/ PromoteInvalidate("p1")
    \/ AcquireStart("t1", None)
    \/ AcquireSteps({"t1"})

SpecRead == InitRace /\ [][NextRead]_vars

\* C15: a read of the pointer that runs while a promotion from A to B is
\* under way returns A or B, never "no current version".
C15_ReadSeesOldOrNew ==
    \A t \in Threads :
        (thr[t].arg = None /\ thr[t].pc \notin {"idle", "resolve"})
        => thr[t].version \in RaceVersions

\* C19: the cache file of a version is never deleted while the manager holds
\* an open handle on that version: eviction, cleanup and a promotion that
\* demotes the version leave the file until the handle is closed.
C19_NoUnlinkUnderOpenHandle ==
    /\ \A p \in Promoters : "handle" \notin promo[p].inuse
    /\ "handle" \notin ev.inuse
    /\ "handle" \notin cl.inuse

(***************************************************************************)
(* SpecPromos: two promote_version calls run at once, in two processes.    *)
(***************************************************************************)
PromosTargets == {"v1", "v2", "v3"}

NextPromos ==
    \E p \in Promoters :
        \/ \E v \in PromosTargets : PromoteStart(p, v, FALSE)
        \/ PromoteRead(p) \/ PromoteOpen(p) \/ PromoteDump(p) \/ PromoteInvalidate(p)

SpecPromos == InitRace /\ [][NextPromos]_vars

\* C16: under any interleaving of two promote calls, every pointer record
\* written has as previous the version that the pointer file named as current
\* just before that write.
C16_PreviousIsLastCurrent ==
    \A p \in Promoters :
        promo[p].wrote # NoPointer => promo[p].wrote.previous = promo[p].before

(***************************************************************************)
(* SpecDownloadRace: a request thread acquires v2, which is not cached,    *)
(* while cleanup_old_cache and cleanup_old_versions run once each.         *)
(***************************************************************************)
InitDownloadRace == InitState(S3Mixed, PointerRecord("v1", None, FALSE), {"v1"})

NextDownloadRace ==
    \/ AcquireStart("t1", "v2")
    \/ AcquireSteps({"t1"})
    \/ EvictStart
    \/ EvictGlob \/ EvictSum \/ EvictSort \/ EvictLoop \/ EvictRecalc
    \/ \E k \in 0..MaxKeep : CleanStart(k)
    \/ CleanRead \/ CleanInvalidate

SpecDownloadRace == InitDownloadRace /\ [][NextDownloadRace]_vars

\* C18: no unlink by eviction, cleanup or a promotion's invalidation removes
\* database_V.sqlite between the start of a download of V and the end of its
\* integrity check.
C18_NoUnlinkDuringDownload ==
    /\ \A p \in Promoters : "download" \notin promo[p].inuse
    /\ "download" \notin ev.inuse
    /\ "download" \notin cl.inuse
\* C24: under any interleaving of acquire with eviction and invalidation,
\* every handle acquire(V) returns is open on a file of V that existed when
\* the handle was opened and had passed the integrity check: never on a
\* missing, partly written or unverified file.
C24_HandleOnVerifiedFile ==
    \A t \in Threads :
        (thr[t].pc = "done" /\ thr[t].result # NoConn)
        => /\ thr[t].result.ver = thr[t].version
           /\ thr[t].result.content = "good"


(***************************************************************************)
(* SpecSetVersion: promotions and DatabaseManager.set_current_version, one *)
(* call at a time.                                                         *)
(***************************************************************************)
\* The record set_current_version writes: version, updated_at, updated_by;
\* it has no previous_version and no force_promotion key.
SetVersionRecord(v) ==
    [kind |-> "json", version |-> v, previous |-> None, forced |-> FALSE,
     by |-> "api"]

\* DatabaseManager.set_current_version(version): no validation, then
\* open(version_file, 'w') and json.dump.
SetCurrentVersion(v) ==
    /\ pointer' = SetVersionRecord(v)
    /\ UNCHANGED <<s3, dbFile, manFile, now, dbConn, curVersion, openConns,
                   thr, promo, ev, cl, delCur>>

NextSetVersion ==
    \/ AllIdle /\ \E v \in PromoteTargets, f \in BOOLEAN : PromoteStart("p1", v, f)
    \/ PromoteSteps({"p1"})
    \/ AllIdle /\ \E v \in PromoteTargets : SetCurrentVersion(v)

SpecSetVersion == Init /\ [][NextSetVersion]_vars

\* C22: in every reachable state, when the pointer file names a current
\* version V, a manifest for V is resolvable in the catalog (which never
\* loses one) or the record has forced = true, whichever operation wrote the
\* file, set_current_version included.
C22_PointerNamesResolvable ==
    pointer.kind = "json" => (VersionExists(pointer.version) \/ pointer.forced)

\* C23: the pointer file's content changes only through promote_version:
\* every record the file holds is one that promote_version wrote.
C23_OnlyPromoterWrites ==
    pointer.kind = "json" => pointer.by = "version_manager"

(***************************************************************************)
(* SpecCatalog: validate_version and promote_version, one call at a time,  *)
(* over catalogs with a manifest that names a missing object or carries no *)
(* timestamp.                                                              *)
(***************************************************************************)
\* validate_version: the listing entry of the version, then head_object on
\* the key of its database_snapshot entry.
ValidateOutcome(v) ==
    IF ~VersionExists(v) THEN "not_found"
    ELSE IF ~s3[v].snap THEN "no_database_file"
    ELSE IF s3[v].art = "missing" THEN "not_accessible"
    ELSE "valid"

ValidateVersion(p, v) ==
    /\ promo[p].pc = "idle"
    /\ promo' = [promo EXCEPT ![p] =
            [IdlePromo EXCEPT !.op = "validate", !.version = v, !.pc = "done",
                              !.result = ValidateOutcome(v), !.ptr0 = pointer,
                              !.db0 = Cached(dbFile), !.man0 = manFile]]
    /\ UNCHANGED <<s3, pointer, dbFile, manFile, now, dbConn, curVersion, openConns,
                   thr, ev, cl, delCur>>

InitCatalog ==
    \E store \in {S3Mixed, S3Empty, S3Dangling, S3NoTimestamp} :
        InitState(store, NoPointer, {})

NextCatalog ==
    \/ AllIdle /\ \E v \in Versions : ValidateVersion("p1", v)
    \/ AllIdle /\ \E v \in PromoteTargets, f \in BOOLEAN : PromoteStart("p1", v, f)
    \/ PromoteSteps({"p1"})

SpecCatalog == InitCatalog /\ [][NextCatalog]_vars

\* C26: validate(V) succeeds exactly when the catalog has a manifest for V,
\* the manifest has a snapshot entry and the store has the object at its key;
\* when the manifest is there and the object is not, the failure is not the
\* one given for a version without a manifest.
C26_ValidateIffResolvable ==
    \A p \in Promoters :
        (promo[p].op = "validate" /\ promo[p].pc = "done")
        => LET v == promo[p].version IN
           /\ promo[p].result = "valid"
                <=> (s3[v].listed /\ s3[v].snap /\ s3[v].art # "missing")
           /\ (s3[v].listed /\ s3[v].snap /\ s3[v].art = "missing")
                => promo[p].result \notin {"valid", "not_found"}

\* C28: the listing that a validate or promote call takes with
\* get_available_versions has one entry for every manifest listed under the
\* manifest prefix, also when a manifest has no snapshot entry or carries no
\* timestamp.
C28_ListingHasEveryManifest ==
    \A p \in Promoters :
        promo[p].pc = "done"
        => /\ SeqToSet(GetAvailableVersions) = Listed
           /\ Len(GetAvailableVersions) = Cardinality(Listed)



(***************************************************************************)
(* SpecGone: one promotion and one cleanup_old_cache run as separate       *)
(* instances over one cache directory holding the snapshots and manifests  *)
(* of v1 and v2, so that each can unlink a file the other has listed or    *)
(* tested.                                                                 *)
(***************************************************************************)
NextGone ==
    \/ \E v \in RaceVersions : PromoteStart("p1", v, FALSE)
    \/ EvictStart
    \/ PromoteRead("p1") \/ PromoteOpen("p1") \/ PromoteDump("p1")
    \/ PromoteInvalidate("p1")
    \/ EvictGlob \/ EvictSum \/ EvictSort \/ EvictLoop \/ EvictRecalc

SpecGone == InitRace /\ [][NextGone]_vars

\* C30: a cache file that another instance unlinked between the listing or
\* the test and the stat or the unlink counts as removed and the operation
\* carries on: a promotion's invalidation of the previous version ends with
\* that version's manifest file removed, and an eviction that listed more
\* than the budget ends with the total within the budget or with no file left
\* but the one it holds to be current.
C30_GoneFileIsBenign ==
    /\ \A p \in Promoters :
          (/\ promo[p].pc = "done" /\ promo[p].result = "ok"
           /\ promo[p].cur # None /\ promo[p].cur # promo[p].version)
          => promo[p].cur \notin manFile
    /\ (ev.pc = "done" /\ SumSizes(ev.files0, ev.globbed) > MAX_CACHE_SIZE_GB)
       => \/ TotalSize(dbFile) <= MAX_CACHE_SIZE_GB
          \/ Cached(dbFile) \subseteq {ev.cur}

\* C32: a promotion that wrote the new pointer returns success and the
\* pointer keeps the record it wrote, also when the invalidation of the
\* previous version failed part-way (the unlink of the snapshot raised).
C32_FailedEvictionKeepsPromotion ==
    \A p \in Promoters :
        (promo[p].pc = "done" /\ promo[p].wrote # NoPointer)
        => /\ promo[p].result = "ok"
           /\ pointer = promo[p].wrote
           /\ pointer.version = promo[p].version

C32_Witness ==
    \E p \in Promoters :
        /\ promo[p].pc = "done" /\ promo[p].result = "ok"
        /\ promo[p].cur # None /\ promo[p].cur # promo[p].version
        /\ ~Exists(promo[p].cur) /\ promo[p].cur \in manFile
        /\ pointer.version = promo[p].version

(***************************************************************************)
(* SpecStats: a weekly-stats request is served while a promotion to v1 or  *)
(* v2 runs in another process.                                             *)
(***************************************************************************)
NextStats ==
    \/ NextRead
    \/ GetWeeklyStats("t1")
    \/ WeeklyStatsRespond("t1")

SpecStats == InitRace /\ [][NextStats]_vars

\* C35: when a weekly-stats response carries rows and names a version, that
\* version is the version of the snapshot that the handle the rows were read
\* through was opened on.
C35_ReportedVersionIsRowsVersion ==
    \A t \in Threads :
        thr[t].reported \in Versions
        => /\ thr[t].rows # NoConn
           /\ thr[t].reported = thr[t].rows.ver

====
